---------------------------- MODULE Spec2Model ----------------------------
(***************************************************************************)
(* Model of src/trading_bot.py: the signal classifier check_signals, the   *)
(* per-pair pipeline run_analysis (fetch, indicators, classification,      *)
(* print, CSV log) and the loop of main that invokes it.                   *)
(*                                                                         *)
(* Numbers are integers.  A cell of a DataFrame is a tagged value: a       *)
(* number, NaN (what the indicator library leaves during warm-up) or None. *)
(* A DataFrame is a record of its column names and its rows; the Python    *)
(* value None in place of a DataFrame is the value None below.             *)
(*                                                                         *)
(* The indicator formulas themselves live in the external library `ta`,    *)
(* not in the program: the model lets the library produce any value of a   *)
(* small set, NaN included, in every indicator column.  Columns that no    *)
(* code of the program reads back (Open, High, Low, Volume, MACD_hist,     *)
(* BB_high, BB_low, BB_mid) are left out of the frames.                    *)
(***************************************************************************)
EXTENDS Integers, Sequences, FiniteSets, TLC

VARIABLES
    pc,         \* position of the control flow
    ohlcv_df,   \* run_analysis: the frame returned by fetch_ohlcv_data
    df,         \* the frame handed to check_signals (df_with_indicators)
    result,     \* the tuple check_signals returned, <<>> before the call
    log,        \* rows of trading_signals.csv, oldest first
    rowsBefore, \* number of log rows when the current run_analysis started
    csv_error,  \* the log_to_csv call of the current run failed to write
    runs,       \* number of run_analysis invocations started
    emitted     \* signals of the successive evaluations of a growing series

vars == <<pc, ohlcv_df, df, result, log, rowsBefore, csv_error, runs, emitted>>

---------------------------------------------------------------------------
(* Bounds of the model.                                                    *)

\* rows of warm-up history in front of the two rows the classifier reads
MaxWarmup == 1
\* length of the growing series
MaxLen == 3
\* candles one fetch returns
MaxCandles == 2
\* invocations of run_analysis
MaxRuns == 2
\* spacing of the candle timestamps, in milliseconds
CandleIntervalMs == 1500

---------------------------------------------------------------------------
(* Values.                                                                 *)

Num(x) == [k |-> "num", v |-> x]
NaN    == [k |-> "nan", v |-> 0]
None   == [k |-> "none", v |-> 0]

\* pd.isna: true of NaN and of None
isna(x) == x.k \in {"nan", "none"}

\* the wall clock read by datetime.now(), in milliseconds
datetime_now == 999999

\* strftime("%Y-%m-%d %H:%M:%S"): the instant cut to whole seconds
strftime(t) == t \div 1000

\* f"{x:.8f}" if x is not None else 'N/A' (and the .2f, .5f variants): text
fmt(x) == IF x.k = "none" THEN [k |-> "N/A", v |-> 0]
          ELSE [k |-> "text_" \o x.k, v |-> x.v]

---------------------------------------------------------------------------
(* Input domains of the bounded model: the closes an exchange may return   *)
(* and the values the indicator library may compute.  RSI sits on either   *)
(* side of and on the thresholds 30 and 70; a line is below, equal to or   *)
(* above the line it may cross.                                            *)

Closes     == {100, 101}
RSIValues  == {29, 30, 70, 71}
\* <<MACD_line, MACD_signal>> and <<EMA50, EMA200>>: below, equal, above
Pairs      == {<<1, 2>>, <<2, 2>>, <<3, 2>>}

DefinedPairs == {<<Num(p[1]), Num(p[2])>> : p \in Pairs}
AnyPairs     == DefinedPairs \cup {<<NaN, Num(2)>>, <<Num(2), NaN>>}

\* What the indicator library may put in one row:
\* <<RSI, <<MACD_line, MACD_signal>>, <<EMA50, EMA200>>>>
WarmupInd  == <<NaN, <<NaN, NaN>>, <<NaN, NaN>>>>
RichInds   == {<<r, m, e>> : r \in {Num(x) : x \in RSIValues} \cup {NaN},
                             m \in AnyPairs, e \in AnyPairs}
SmallInds  == {<<Num(r), m, e>> : r \in {29, 71},
                                  m \in DefinedPairs, e \in DefinedPairs}
                \cup {WarmupInd}

SeqsOf(S, n) == [1..n -> S]

---------------------------------------------------------------------------
(* DataFrames.                                                             *)

OHLCVColumns     == {"Timestamp", "Close"}
IndicatorColumns == {"RSI", "MACD_line", "MACD_signal", "EMA50", "EMA200"}

\* pd.to_datetime(unit='ms') of the i-th candle of a series
TimestampOf(i) == i * CandleIntervalMs

\* fetch_ohlcv_data: the frame of a list of candles
OHLCVFrame(closes) ==
    [columns |-> OHLCVColumns,
     rows    |-> [i \in 1..Len(closes) |->
                    [Timestamp |-> TimestampOf(i), Close |-> Num(closes[i])]]]

\* one row with the indicator columns added, ind being what the library
\* computed for it
IndicatorRow(row, ind) ==
    [Timestamp   |-> row.Timestamp,
     Close       |-> row.Close,
     RSI         |-> ind[1],
     MACD_line   |-> ind[2][1],
     MACD_signal |-> ind[2][2],
     EMA50       |-> ind[3][1],
     EMA200      |-> ind[3][2]]

\* calculate_technical_indicators: the frame with the indicator columns
Annotate(d, inds) ==
    [columns |-> d.columns \cup IndicatorColumns,
     rows    |-> [i \in 1..Len(d.rows) |-> IndicatorRow(d.rows[i], inds[i])]]

len(d)     == Len(d.rows)
empty(d)   == Len(d.rows) = 0
\* df.iloc[-n]
iloc(d, n) == d.rows[Len(d.rows) + 1 - n]
\* row.get(col): None for a missing column
get(row, col) == IF col \in DOMAIN row THEN row[col] ELSE None

---------------------------------------------------------------------------
(* check_signals.                                                          *)

latest_row(d)   == iloc(d, 1)

\* slip: df.iloc[0] in place of df.iloc[-2]
previous_row_first(d) == d.rows[1]

previous_row(d) == iloc(d, 2)

\* row['col'] raises KeyError for a column the frame does not have
KeyErrorIn(d) ==
    ~ ({"Close"} \cup IndicatorColumns \subseteq d.columns)

\* the return of the `if df is None or df.empty or len(df) < 2` branch
not_enough_data == <<"NO_SIGNAL", None, None, None, None, None>>

\* slip: the except branch reports a state of its own
except_handler_error_state(d, latestBound) ==
    <<"ERROR", None, None, None, None, None, None>>

\* the except branch
except_handler(d, latestBound) ==
    IF latestBound /\ ~empty(d)
    THEN LET latest == latest_row(d) IN
         <<"NO_SIGNAL", get(latest, "Close"), get(latest, "RSI"),
           get(latest, "MACD_line"), get(latest, "MACD_signal"),
           get(latest, "EMA50"), get(latest, "EMA200")>>
    ELSE <<"NO_SIGNAL", None, None, None, None, None, None>>

\* slip: only the latest row is checked for missing values
has_nan_latest_only(latest, previous) ==
    \/ isna(latest.RSI) \/ isna(latest.MACD_line) \/ isna(latest.MACD_signal)
    \/ isna(latest.EMA50) \/ isna(latest.EMA200)

\* the check for missing indicator values
has_nan(latest, previous) ==
    \/ isna(latest.RSI) \/ isna(latest.MACD_line) \/ isna(latest.MACD_signal)
    \/ isna(latest.EMA50) \/ isna(latest.EMA200)
    \/ isna(previous.MACD_line) \/ isna(previous.MACD_signal)
    \/ isna(previous.EMA50) \/ isna(previous.EMA200)

macd_bullish_crossover(latest, previous) ==
    /\ latest.MACD_line.v > latest.MACD_signal.v
    /\ previous.MACD_line.v <= previous.MACD_signal.v

\* slip: EMA50 above EMA200 taken for a crossover, the previous row ignored
ema_bullish_crossover_level(latest, previous) ==
    latest.EMA50.v > latest.EMA200.v

ema_bullish_crossover(latest, previous) ==
    /\ latest.EMA50.v > latest.EMA200.v
    /\ previous.EMA50.v <= previous.EMA200.v

macd_bearish_crossover(latest, previous) ==
    /\ latest.MACD_line.v < latest.MACD_signal.v
    /\ previous.MACD_line.v >= previous.MACD_signal.v

ema_bearish_crossover(latest, previous) ==
    /\ latest.EMA50.v < latest.EMA200.v
    /\ previous.EMA50.v >= previous.EMA200.v

\* the body of the try block, for a frame that has every column
signal_logic(latest, previous) ==
    LET values == <<latest.Close, latest.RSI, latest.MACD_line,
                    latest.MACD_signal, latest.EMA50, latest.EMA200>>
    IN  IF has_nan(latest, previous)
        THEN <<"NO_SIGNAL">> \o values
        ELSE IF /\ latest.RSI.v < 30
                /\ macd_bullish_crossover(latest, previous)
                /\ ema_bullish_crossover(latest, previous)
        THEN <<"BUY">> \o values
        ELSE IF /\ latest.RSI.v > 70
                /\ macd_bearish_crossover(latest, previous)
                /\ ema_bearish_crossover(latest, previous)
        THEN <<"SELL">> \o values
        ELSE <<"NO_SIGNAL">> \o values

\* slip: a single row classified against a previous row padded with zeros
check_signals_padded(d) ==
    IF d = None \/ empty(d)
    THEN not_enough_data
    ELSE IF KeyErrorIn(d)
    THEN except_handler(d, TRUE)
    ELSE signal_logic(latest_row(d),
                      IF len(d) < 2
                      THEN [Timestamp |-> 0, Close |-> Num(0), RSI |-> Num(0),
                            MACD_line |-> Num(0), MACD_signal |-> Num(0),
                            EMA50 |-> Num(0), EMA200 |-> Num(0)]
                      ELSE previous_row(d))

check_signals(d) ==
    IF d = None \/ empty(d) \/ len(d) < 2
    THEN not_enough_data
    ELSE IF KeyErrorIn(d)
    THEN except_handler(d, TRUE)
    ELSE signal_logic(latest_row(d), previous_row(d))

---------------------------------------------------------------------------
(* The classifier called on its own, over every input of the bounds.       *)

Cells(inds) == {<<c, i>> : c \in Closes, i \in inds}

\* a frame from a sequence of <<Close, indicators>> pairs
AnnotatedFrame(cells) ==
    Annotate(OHLCVFrame([i \in 1..Len(cells) |-> cells[i][1]]),
             [i \in 1..Len(cells) |-> cells[i][2]])

\* up to two arbitrary rows, or warm-up rows followed by two arbitrary rows
ClassifierCells ==
    SeqsOf(Cells(RichInds), 0) \cup SeqsOf(Cells(RichInds), 1) \cup
    {w \o t : w \in UNION {SeqsOf({<<100, WarmupInd>>}, k) : k \in 0..MaxWarmup},
              t \in SeqsOf(Cells(RichInds), 2)}

\* frames without the indicator columns
RawFrames ==
    {OHLCVFrame(c) : c \in UNION {SeqsOf(Closes, n) : n \in 1..3}}

ClassifierInputs ==
    {None} \cup {AnnotatedFrame(s) : s \in ClassifierCells} \cup RawFrames

InitCall(inputs) ==
    /\ pc = "input"
    /\ df \in inputs
    /\ ohlcv_df = None
    /\ result = <<>>
    /\ log = <<>>
    /\ rowsBefore = 0
    /\ csv_error = FALSE
    /\ runs = 0
    /\ emitted = <<>>

\* one call of check_signals(df)
Call ==
    /\ pc = "input"
    /\ result' = check_signals(df)
    /\ pc' = "returned"
    /\ UNCHANGED <<ohlcv_df, df, log, rowsBefore, csv_error, runs, emitted>>

SpecClassify == InitCall(ClassifierInputs) /\ [][Call]_vars

---------------------------------------------------------------------------
(* run_analysis, invoked again and again by main.                          *)

\* log_to_csv: the row appended to the file; a failure to open or write
\* the file is caught inside log_to_csv and leaves the file as it was.
\* Every caller passes a datetime.  The Pair column is left out.
data_row(timestamp, price, rsi, macd_line, macd_signal, ema50, ema200, signal_type) ==
    [Timestamp   |-> strftime(timestamp),
     Price       |-> fmt(price),
     RSI         |-> fmt(rsi),
     MACD_Line   |-> fmt(macd_line),
     MACD_Signal |-> fmt(macd_signal),
     EMA50       |-> fmt(ema50),
     EMA200      |-> fmt(ema200),
     Signal      |-> signal_type]

log_to_csv(lg, row, written) == IF written THEN Append(lg, row) ELSE lg

error_row(signal_type) ==
    data_row(datetime_now, None, None, None, None, None, None, signal_type)

\* the row of a classification result, stamped with the latest candle
signal_row(d, res, signal_type) ==
    data_row(d.rows[Len(d.rows)].Timestamp,
             res[2], res[3], res[4], res[5], res[6], res[7], signal_type)

\* slip: NO_SIGNAL evaluations are logged as well
rows_to_log_every_evaluation(d, res) ==
    IF res[1] \in {"BUY", "SELL", "NO_SIGNAL"}
    THEN <<signal_row(d, res, res[1])>>
    ELSE <<data_row(datetime_now, res[2], res[3], res[4], res[5], res[6],
                    res[7], "UNKNOWN_STATE")>>

\* step 5 of run_analysis: the rows it hands to log_to_csv (one or none);
\* the text after "UNKNOWN_STATE: " is left out
rows_to_log(d, res) ==
    IF res[1] \in {"BUY", "SELL"}
    THEN <<signal_row(d, res, res[1])>>
    ELSE IF res[1] = "NO_SIGNAL"
    THEN <<>>
    ELSE <<data_row(datetime_now, res[2], res[3], res[4], res[5], res[6],
                    res[7], "UNKNOWN_STATE")>>

\* signal, current_price, rsi, ... = check_signals(...): seven targets
unpacks(res) == Len(res) = 7

InitRun ==
    /\ pc = "idle"
    /\ ohlcv_df = None
    /\ df = None
    /\ result = <<>>
    /\ log = <<>>
    /\ rowsBefore = 0
    /\ csv_error = FALSE
    /\ runs = 0
    /\ emitted = <<>>

\* main starts the next run_analysis; a run that raised ended the loop
Invoked ==
    /\ pc \in {"idle", "done"}
    /\ runs < MaxRuns
    /\ runs' = runs + 1
    /\ rowsBefore' = Len(log)
    /\ csv_error' = FALSE
    /\ df' = None
    /\ result' = <<>>
    /\ UNCHANGED <<log, emitted>>

\* step 1, fetch_ohlcv_data returned a frame of 1..MaxCandles candles
FetchData ==
    /\ Invoked
    /\ \E n \in 1..MaxCandles : \E closes \in SeqsOf({100}, n) :
           ohlcv_df' = OHLCVFrame(closes)
    /\ pc' = "fetched"

\* log_to_csv called with one row
WriteRow(row) ==
    \E written \in BOOLEAN :
        /\ log' = log_to_csv(log, row, written)
        /\ csv_error' = ~written

\* step 1, fetch_ohlcv_data returned None: DATA_FETCH_ERROR, return
FetchDataFails ==
    /\ pc \in {"idle", "done"}
    /\ runs < MaxRuns
    /\ runs' = runs + 1
    /\ rowsBefore' = Len(log)
    /\ ohlcv_df' = None
    /\ df' = None
    /\ result' = <<>>
    /\ WriteRow(error_row("DATA_FETCH_ERROR"))
    /\ pc' = "done"
    /\ UNCHANGED emitted

\* step 2, calculate_technical_indicators returned the annotated copy
CalculateIndicators ==
    /\ pc = "fetched"
    /\ \E inds \in SeqsOf(SmallInds, len(ohlcv_df)) :
           df' = Annotate(ohlcv_df, inds)
    /\ pc' = "calculated"
    /\ UNCHANGED <<ohlcv_df, result, log, rowsBefore, csv_error, runs, emitted>>

\* step 2, calculate_technical_indicators returned None:
\* INDICATOR_CALC_ERROR, return
CalculateIndicatorsFails ==
    /\ pc = "fetched"
    /\ df' = None
    /\ WriteRow(error_row("INDICATOR_CALC_ERROR"))
    /\ pc' = "done"
    /\ UNCHANGED <<ohlcv_df, result, rowsBefore, runs, emitted>>

\* step 3, the call of check_signals and the unpacking of its result; a
\* result that does not unpack raises ValueError out of run_analysis
CheckSignals ==
    /\ pc = "calculated"
    /\ result' = check_signals(df)
    /\ pc' = IF unpacks(result') THEN "classified" ELSE "raised"
    /\ UNCHANGED <<ohlcv_df, df, log, rowsBefore, csv_error, runs, emitted>>

\* steps 4 and 5, the printed message and the logged row
LogResults ==
    /\ pc = "classified"
    /\ LET rows == rows_to_log(df, result) IN
         IF rows = <<>>
         THEN UNCHANGED <<log, csv_error>>
         ELSE WriteRow(rows[1])
    /\ pc' = "done"
    /\ UNCHANGED <<ohlcv_df, df, result, rowsBefore, runs, emitted>>

\* frames check_signals is called on directly
DirectInputs ==
    {None} \cup RawFrames
    \cup {AnnotatedFrame(s) :
            s \in UNION {SeqsOf({100} \X SmallInds, n) : n \in 0..2}}

Init == InitRun \/ InitCall(DirectInputs)

Next ==
    \/ FetchData
    \/ FetchDataFails
    \/ CalculateIndicators
    \/ CalculateIndicatorsFails
    \/ CheckSignals
    \/ LogResults
    \/ Call

Spec == Init /\ [][Next]_vars

---------------------------------------------------------------------------
(* The classifier evaluated after each candle of a growing series: every   *)
(* evaluation sees the rows of the one before it, unchanged, and one more. *)

InitGrow ==
    /\ pc = "grown"
    /\ df = Annotate(OHLCVFrame(<<>>), <<>>)
    /\ ohlcv_df = None
    /\ result = <<>>
    /\ log = <<>>
    /\ rowsBefore = 0
    /\ csv_error = FALSE
    /\ runs = 0
    /\ emitted = <<>>

\* evaluation k: check_signals on candles 0..k
Evaluate ==
    /\ pc = "grown"
    /\ result' = check_signals(df)
    /\ emitted' = Append(emitted, result'[1])
    /\ pc' = "evaluated"
    /\ UNCHANGED <<ohlcv_df, df, log, rowsBefore, csv_error, runs>>

\* the next candle closes; the earlier rows keep their values
NewCandle ==
    /\ pc = "evaluated"
    /\ len(df) < MaxLen
    /\ \E ind \in SmallInds :
         df' = [df EXCEPT !.rows =
                  Append(@, IndicatorRow([Timestamp |-> TimestampOf(len(df) + 1),
                                          Close     |-> Num(100)], ind))]
    /\ pc' = "grown"
    /\ UNCHANGED <<ohlcv_df, result, log, rowsBefore, csv_error, runs, emitted>>

NextGrow == Evaluate \/ NewCandle

SpecGrow == InitGrow /\ [][NextGrow]_vars

---------------------------------------------------------------------------
(* Properties.  They read the frame and the result directly.               *)

Latest   == df.rows[Len(df.rows)]
Previous == df.rows[Len(df.rows) - 1]

\* check_signals has returned for a frame of two rows or more that has the
\* indicator columns
ReturnedForSeries ==
    /\ pc = "returned"
    /\ df # None
    /\ Len(df.rows) >= 2
    /\ IndicatorColumns \subseteq df.columns

Defined(x) == x.k = "num"

AllNineDefined ==
    /\ Defined(Latest.RSI)
    /\ Defined(Latest.MACD_line) /\ Defined(Latest.MACD_signal)
    /\ Defined(Latest.EMA50) /\ Defined(Latest.EMA200)
    /\ Defined(Previous.MACD_line) /\ Defined(Previous.MACD_signal)
    /\ Defined(Previous.EMA50) /\ Defined(Previous.EMA200)

BuyCondition ==
    /\ Latest.RSI.v < 30
    /\ Latest.MACD_line.v > Latest.MACD_signal.v
    /\ Previous.MACD_line.v <= Previous.MACD_signal.v
    /\ Latest.EMA50.v > Latest.EMA200.v
    /\ Previous.EMA50.v <= Previous.EMA200.v

SellCondition ==
    /\ Latest.RSI.v > 70
    /\ Latest.MACD_line.v < Latest.MACD_signal.v
    /\ Previous.MACD_line.v >= Previous.MACD_signal.v
    /\ Latest.EMA50.v < Latest.EMA200.v
    /\ Previous.EMA50.v >= Previous.EMA200.v

\* C1: with all nine values defined, check_signals returns BUY exactly when
\* RSI < 30 and both bullish crossovers hold on the latest candle, SELL
\* exactly when RSI > 70 and both bearish crossovers hold, and NO_SIGNAL in
\* every other case.
C1_SignalRule ==
    (ReturnedForSeries /\ AllNineDefined) =>
        /\ (result[1] = "BUY") <=> BuyCondition
        /\ (result[1] = "SELL") <=> SellCondition
        /\ (~BuyCondition /\ ~SellCondition) => result[1] = "NO_SIGNAL"

\* BUY returned for a series that has warm-up history in front
C1_Witness ==
    /\ ReturnedForSeries /\ AllNineDefined
    /\ Len(df.rows) = 3
    /\ BuyCondition
    /\ result[1] = "BUY"

\* C2: for a series of fewer than 2 candles (absent, empty or one candle)
\* the signal is NO_SIGNAL, whatever the candle holds.
C2_ShortSeriesNoSignal ==
    (pc = "returned" /\ (df = None \/ Len(df.rows) < 2)) =>
        result[1] = "NO_SIGNAL"

\* one candle whose own values are an RSI extreme with both lines above
C2_Witness ==
    /\ pc = "returned"
    /\ df # None
    /\ Len(df.rows) = 1
    /\ IndicatorColumns \subseteq df.columns
    /\ Latest.RSI = Num(29)
    /\ Latest.MACD_line = Num(3) /\ Latest.MACD_signal = Num(2)
    /\ Latest.EMA50 = Num(3) /\ Latest.EMA200 = Num(2)
    /\ result[1] = "NO_SIGNAL"

\* C3: for a series of 2 candles or more, if any of the nine values is
\* undefined the result is NO_SIGNAL, and the price and indicator fields
\* returned are the latest candle's own values, undefined ones included.
C3_UndefinedNoSignal ==
    (ReturnedForSeries /\ ~AllNineDefined) =>
        result = <<"NO_SIGNAL", Latest.Close, Latest.RSI, Latest.MACD_line,
                   Latest.MACD_signal, Latest.EMA50, Latest.EMA200>>

\* only EMA200 of the previous candle is undefined, the rest would be a SELL
C3_Witness ==
    /\ ReturnedForSeries
    /\ Previous.EMA200 = NaN
    /\ Defined(Previous.EMA50)
    /\ Defined(Previous.MACD_line) /\ Defined(Previous.MACD_signal)
    /\ Latest.RSI = Num(71)
    /\ Latest.MACD_line = Num(1) /\ Latest.MACD_signal = Num(2)
    /\ Latest.EMA50 = Num(1) /\ Latest.EMA200 = Num(2)
    /\ Previous.MACD_line.v >= Previous.MACD_signal.v
    /\ result[1] = "NO_SIGNAL"

\* C4: over the evaluations of a growing series the same BUY or SELL is
\* never emitted by two consecutive evaluations.
C4_NoRepeatedSignal ==
    \A k \in 1..(Len(emitted) - 1) :
        emitted[k] \in {"BUY", "SELL"} => emitted[k + 1] # emitted[k]

\* the evaluations so far saw 0, 1, 2 and 3 candles: BUY at the second
\* candle; at the third the strict inequalities persist
C4_Witness ==
    /\ pc = "evaluated"
    /\ Len(emitted) = 4
    /\ emitted[3] = "BUY"
    /\ Latest.RSI = Num(29)
    /\ Latest.MACD_line.v > Latest.MACD_signal.v
    /\ Latest.EMA50.v > Latest.EMA200.v
    /\ emitted[4] = "NO_SIGNAL"

\* C5: for a series of fewer than 2 candles the result is NO_SIGNAL, its
\* price is the latest close when there is one candle and undefined only
\* when there is none, and every indicator field is undefined or copied
\* from the latest row.
C5_ShortSeriesResult ==
    (pc = "returned" /\ (df = None \/ Len(df.rows) < 2)) =>
        /\ result[1] = "NO_SIGNAL"
        /\ (df # None /\ Len(df.rows) = 1) => result[2] = Latest.Close
        /\ (df = None \/ Len(df.rows) = 0) => result[2] = None
        /\ \A i \in 3..Len(result) :
              \/ result[i] \in {None, NaN}
              \/ /\ df # None /\ Len(df.rows) = 1
                 /\ result[i] = <<Latest.RSI, Latest.MACD_line,
                                  Latest.MACD_signal, Latest.EMA50,
                                  Latest.EMA200>>[i - 2]

\* the rows the current run_analysis appended
Appended == SubSeq(log, rowsBefore + 1, Len(log))

FetchFailed == pc = "done" /\ runs > 0 /\ ohlcv_df = None
IndicatorsFailed == pc = "done" /\ runs > 0 /\ ohlcv_df # None /\ df = None
RunClassified == pc = "done" /\ runs > 0 /\ result # <<>>

\* C7: no failure becomes a signal.  An exception inside check_signals
\* gives NO_SIGNAL; a run whose fetch or indicator calculation failed, or
\* that raised, never classified and appended no BUY or SELL row.
C7_NoFailureUpgraded ==
    /\ (/\ pc = "returned" /\ df # None /\ Len(df.rows) >= 2
        /\ ~(IndicatorColumns \subseteq df.columns))
          => result[1] = "NO_SIGNAL"
    /\ (FetchFailed \/ IndicatorsFailed) => result = <<>>
    /\ (FetchFailed \/ IndicatorsFailed \/ pc = "raised") =>
          \A i \in 1..Len(Appended) : Appended[i].Signal \notin {"BUY", "SELL"}

\* check_signals raised KeyError on a frame without indicator columns
C7_Witness ==
    /\ pc = "returned"
    /\ df # None
    /\ Len(df.rows) >= 2
    /\ df.columns = OHLCVColumns
    /\ result[1] = "NO_SIGNAL"
    /\ result[2] = Latest.Close

\* C9: every result of check_signals has the 7 fields run_analysis
\* unpacks, so run_analysis never raises at the classification step.
C9_SevenFields ==
    /\ result # <<>> => Len(result) = 7
    /\ pc # "raised"

=============================================================================
